---- MODULE Spec2Model ----
(***************************************************************************)
(* Model of the full-run drop allocation program:                          *)
(*   src/allocation_model.py  allocation_data_from_tables,                 *)
(*                            build_allocation_model, AllocationModel      *)
(*   src/run_allocation.py    run                                          *)
(*                                                                         *)
(* Both source files interleave two drafts of the program hunk by hunk:    *)
(* the tier/heat formulation with SKU x size supply and ratios (the first  *)
(* group of lines of every hunk) and an older single-size-per-SKU draft    *)
(* (the second group).  The model follows the tier/heat draft, the one the *)
(* module docstring calls the latest stakeholder specification; every      *)
(* definition names the lines of that draft it is translated from.  The    *)
(* minimum-runs step, which only the older draft has, is modelled too:     *)
(* AllocationData keeps its field min_runs, which defaults to None and     *)
(* which the tier/heat allocation_data_from_tables never sets.             *)
(*                                                                         *)
(* The integer-programming solver is an external collaborator.  Its step   *)
(* (Optimize) is a nondeterministic choice over the outcomes its contract  *)
(* allows: a returned solution satisfies every constraint of the built     *)
(* program, an OPTIMAL one also maximises the objective.                   *)
(***************************************************************************)
EXTENDS Integers, Sequences, FiniteSets, TLC

VARIABLES
    tables,           \* the parsed input tables and the command-line flag
    pc,               \* position of run()
    data,             \* the AllocationData snapshot (NoData before it exists)
    model,            \* the built program: variables, objective, constraints
    params,           \* solver parameters set so far
    Status,           \* model.Status
    SolCount,         \* model.SolCount
    X,                \* runs[door, sku].X of the incumbent
    status,           \* the local `status` of run()
    allocation_rows,  \* the local `allocation_rows` of run()
    slack_rows,       \* the local `slack_rows` of run()
    written,          \* the report files written so far
    error,            \* the exception that ended run(), or NoError
    last_call         \* the outcome of the latest direct call of an extractor

vars == <<tables, pc, data, model, params, Status, SolCount, X, status,
          allocation_rows, slack_rows, written, error, last_call>>

-----------------------------------------------------------------------------
(* Bounds of the model.                                                    *)

\* Values a runs variable may take in an enumerated solution: 0..MaxRunValue.
MaxRunValue == 3
\* max_runs entries of the generated tier_cap_runs tables: 0..MaxRunsEntry.
MaxRunsEntry == 2
\* cap_runs_total entries of the generated tier_capacity tables: 1..MaxTierCap.
MaxTierCap == 2

-----------------------------------------------------------------------------
(* Values.                                                                 *)

\* An empty cell of a table: pandas reads it as NaN, and the NaN is the value
\* the row's key maps to.
NaN == -1

\* GRB.INFINITY, the right-hand side of a cap constraint without a cap entry.
GRB_INFINITY == 1000000

NoData == [none |-> TRUE]
NoModel == [none |-> TRUE]
NoError == [type |-> "none"]
NoCall == [call |-> "none"]
NoRows == [none |-> TRUE]
\* min_runs: Mapping[...] | None = None
None == [none |-> TRUE]

\* A heat cell as read: a string label, or a number.
HeatStr(v) == [t |-> "str", v |-> v]
HeatNum(v) == [t |-> "num", v |-> v]
\* str(value) / astype(str): a number becomes its decimal string.
Str(h) == [t |-> "str", v |-> h.v]

\* Python's order of the identifiers the inputs use (by code point).
IdOrder == <<"L", "M", "S", "a", "a,b", "b,c", "c", "d1", "d2", "k1", "k2", "k9">>

\* sorted(...) of a set of identifiers.
Sorted(S) == SelectSeq(IdOrder, LAMBDA x : x \in S)

Range(f) == {f[x] : x \in DOMAIN f}

SeqSet(q) == {q[i] : i \in 1..Len(q)}

\* mapping.get(key, default)
Get(mapping, key, default) == IF key \in DOMAIN mapping THEN mapping[key] ELSE default

-----------------------------------------------------------------------------
(* allocation_data_from_tables: the tables become exact-match mappings and *)
(* the universes; missing keys raise ValueError.  A table is a function    *)
(* from the key columns of its rows to the record of its value columns.    *)

\* _series_to_mapping(df, key_cols, value_col)
SeriesToMapping(df, value_col) == [k \in DOMAIN df |-> df[k][value_col]]

ValueError(msg, keys) == [type |-> "ValueError", msg |-> msg, keys |-> keys]

\* sku_sizes: each SKU of the articles table with the sorted set of its sizes.
SkuSizes(articles) ==
    [s \in {a[1] : a \in articles} |->
        Sorted({a[2] : a \in {b \in articles : b[1] = s}})]

\* heat.set_index("sku")["heat"].astype(str).to_dict()
HeatMap(heat) == [s \in DOMAIN heat |-> Str(heat[s])]

\* missing_heat = set(skus) - set(heat_map)
MissingHeat(skus, heat_map) == SeqSet(skus) \ DOMAIN heat_map

\* expected_size_keys - set(supply_units_map)
MissingSupply(sku_sizes, supply_units_map) ==
    UNION {{<<s, z>> : z \in SeqSet(sku_sizes[s])} : s \in DOMAIN sku_sizes}
        \ DOMAIN supply_units_map

\* required_pairs = {(tier, heat_map[sku]) for sku in skus for tier in tiers}
RequiredPairs(door_tier_map, skus, heat_map) ==
    {<<tier, heat_map[sku]>> : tier \in Range(door_tier_map), sku \in SeqSet(skus)}

NoMissingPairs(required_pairs, mapping) == {}

\* missing_score / missing_max_runs = required_pairs - set(mapping)
MissingPairs(required_pairs, mapping) == required_pairs \ DOMAIN mapping

allocation_data_from_tables(t) ==
    LET doors_list == Sorted(DOMAIN t.doors)
        skus == Sorted({a[1] : a \in t.articles})
        sizes == Sorted({a[2] : a \in t.articles})
        sku_sizes == SkuSizes(t.articles)
        door_tier_map == t.doors
        eligible_map == SeriesToMapping(t.eligibility, "eligible")
        supply_units_map == SeriesToMapping(t.supply, "supply_units")
        ratio_map == SeriesToMapping(t.supply, "ratio")
        heat_map == HeatMap(t.heat)
        max_runs_map == SeriesToMapping(t.tier_cap_runs, "max_runs")
        score_map == SeriesToMapping(t.tier_cap_runs, "score")
        cap_runs_total_map == SeriesToMapping(t.tier_capacity, "cap_runs_total")
        missing_heat == MissingHeat(skus, heat_map)
        missing_supply == MissingSupply(sku_sizes, supply_units_map)
        required_pairs == RequiredPairs(door_tier_map, skus, heat_map)
        missing_score == MissingPairs(required_pairs, score_map)
        missing_max_runs == MissingPairs(required_pairs, max_runs_map)
        raise(e) == [error |-> e, data |-> NoData]
    IN  IF missing_heat # {}
        THEN raise(ValueError("Missing heat entries for SKUs", missing_heat))
        ELSE IF missing_supply # {}
        THEN raise(ValueError("Missing supply entries for SKU x size pairs",
                              missing_supply))
        ELSE IF missing_score # {}
        THEN raise(ValueError("Missing score entries for tier/heat pairs",
                              missing_score))
        ELSE IF missing_max_runs # {}
        THEN raise(ValueError("Missing max_runs entries for tier/heat pairs",
                              missing_max_runs))
        ELSE IF DOMAIN supply_units_map # DOMAIN ratio_map
        THEN raise(ValueError(
                 "Supply and ratio tables must share identical (sku, size) keys.",
                 {}))
        ELSE [error |-> NoError,
              data |-> [doors |-> doors_list,
                        sizes |-> sizes,
                        skus |-> skus,
                        door_tier |-> door_tier_map,
                        sku_sizes |-> sku_sizes,
                        eligible |-> eligible_map,
                        heat |-> heat_map,
                        score |-> score_map,
                        max_runs |-> max_runs_map,
                        supply_units |-> supply_units_map,
                        ratio |-> ratio_map,
                        cap_runs_total |-> cap_runs_total_map,
                        min_runs |-> None]]

-----------------------------------------------------------------------------
(* build_allocation_model: one integer variable per (door, SKU), the       *)
(* objective, and the named constraints in the order they are added.       *)

\* The keys of runs = model.addVars(list(data.doors), list(data.skus), ...),
\* door-major.
RunsKeys(d) ==
    [i \in 1..(Len(d.doors) * Len(d.skus)) |->
        <<d.doors[((i - 1) \div Len(d.skus)) + 1],
          d.skus[((i - 1) % Len(d.skus)) + 1]>>]

ObjCoefMinimize(d, door, sku) == 0 - d.score[<<d.door_tier[door], d.heat[sku]>>]

\* The objective coefficient of runs[door, sku].
ObjCoef(d, door, sku) == d.score[<<d.door_tier[door], d.heat[sku]>>]

EligibilityCapDefaultOne(d, door, sku) ==
    Get(d.eligible, <<door, sku>>, 1) * d.max_runs[<<d.door_tier[door], d.heat[sku]>>]

\* cap = data.eligible.get((door, sku), 0) * data.max_runs[(tier, heat)]
EligibilityCap(d, door, sku) ==
    Get(d.eligible, <<door, sku>>, 0) * d.max_runs[<<d.door_tier[door], d.heat[sku]>>]

\* runs[door, sku] <= cap, name eligibility[door,sku]
EligibilityConstr(d, door, sku) ==
    [name |-> "eligibility[" \o door \o "," \o sku \o "]",
     kind |-> "eligibility",
     key |-> <<door, sku>>,
     coef |-> [k \in SeqSet(RunsKeys(d)) |-> IF k = <<door, sku>> THEN 1 ELSE 0],
     sense |-> "<",
     rhs |-> EligibilityCap(d, door, sku)]

SupplyCoefOne(d, sku, size) == 1

\* The coefficient of runs[door, sku] in the supply constraint of (sku, size).
SupplyCoef(d, sku, size) == d.ratio[<<sku, size>>]

\* quicksum(ratio * runs[door, sku] for door in doors) <= supply,
\* name supply[sku,size]
SupplyConstr(d, sku, size) ==
    [name |-> "supply[" \o sku \o "," \o size \o "]",
     kind |-> "supply",
     key |-> <<sku, size>>,
     coef |-> [k \in SeqSet(RunsKeys(d)) |->
                  IF k[2] = sku THEN SupplyCoef(d, sku, size) ELSE 0],
     sense |-> "<",
     rhs |-> d.supply_units[<<sku, size>>]]

TierCapRhsOfFirstTier(d, door) ==
    Get(d.cap_runs_total, d.door_tier[d.doors[1]], GRB_INFINITY)

\* data.cap_runs_total.get(data.door_tier[door], GRB.INFINITY)
TierCapRhs(d, door) == Get(d.cap_runs_total, d.door_tier[door], GRB_INFINITY)

\* quicksum(runs[door, sku] for sku in skus) <= cap, name cap_runs_total[door]
CapRunsTotalConstr(d, door) ==
    [name |-> "cap_runs_total[" \o door \o "]",
     kind |-> "cap_runs_total",
     key |-> <<door>>,
     coef |-> [k \in SeqSet(RunsKeys(d)) |-> IF k[1] = door THEN 1 ELSE 0],
     sense |-> "<",
     rhs |-> TierCapRhs(d, door)]

\* _min_runs(data, door, sku)
_min_runs(d, door, sku) ==
    IF d.min_runs = None THEN 0 ELSE Get(d.min_runs, <<door, sku>>, 0)

\* runs[door, sku] >= min_bound, name min_runs[door,sku]
MinRunsConstr(d, door, sku) ==
    [name |-> "min_runs[" \o door \o "," \o sku \o "]",
     kind |-> "min_runs",
     key |-> <<door, sku>>,
     coef |-> [k \in SeqSet(RunsKeys(d)) |-> IF k = <<door, sku>> THEN 1 ELSE 0],
     sense |-> ">",
     rhs |-> _min_runs(d, door, sku)]

\* if min_bound: model.addConstr(...), for the pairs in the order of the
\* variables.
MinRunsConstrs(d) ==
    LET bounded == SelectSeq(RunsKeys(d), LAMBDA k : _min_runs(d, k[1], k[2]) # 0)
    IN  [i \in 1..Len(bounded) |-> MinRunsConstr(d, bounded[i][1], bounded[i][2])]

\* The keys of data.supply_units in the order the loop visits them.  The
\* mapping keeps the order of the supply table's rows; the rows are taken
\* SKU-major in identifier order.
SupplyKeys(d) ==
    LET keys == DOMAIN d.supply_units
        na == Len(IdOrder)
        all == [i \in 1..(na * na) |->
                   <<IdOrder[((i - 1) \div na) + 1], IdOrder[((i - 1) % na) + 1]>>]
    IN  SelectSeq(all, LAMBDA k : k \in keys)

\* A supply row whose SKU has no runs variable: runs[door, sku] raises KeyError
\* as soon as there is a door to sum over.
SupplyKeyErrors(d) ==
    {k \in DOMAIN d.supply_units : k[1] \notin SeqSet(d.skus) /\ Len(d.doors) > 0}

\* A NaN ratio or supply cell reaches the solver library as a coefficient or a
\* right-hand side, which the library rejects.
NaNCells(d) ==
    {k \in DOMAIN d.supply_units : d.supply_units[k] = NaN \/ d.ratio[k] = NaN}

\* data.heat[sku], data.score[(tier, heat)] and data.max_runs[(tier, heat)]
\* raise KeyError on a key the mapping lacks.
LookupErrors(d) ==
    {k \in SeqSet(RunsKeys(d)) :
        \/ k[2] \notin DOMAIN d.heat
        \/ <<d.door_tier[k[1]], d.heat[k[2]]>> \notin DOMAIN d.score
        \/ <<d.door_tier[k[1]], d.heat[k[2]]>> \notin DOMAIN d.max_runs}

build_allocation_model(d) ==
    LET keys == RunsKeys(d)
        eligibility == [i \in 1..Len(keys) |-> EligibilityConstr(d, keys[i][1], keys[i][2])]
        sk == SupplyKeys(d)
        supply == [i \in 1..Len(sk) |-> SupplyConstr(d, sk[i][1], sk[i][2])]
        caps == [i \in 1..Len(d.doors) |-> CapRunsTotalConstr(d, d.doors[i])]
    IN  IF LookupErrors(d) # {}
        THEN [error |-> [type |-> "KeyError", keys |-> LookupErrors(d)],
              model |-> NoModel]
        ELSE IF SupplyKeyErrors(d) # {}
        THEN [error |-> [type |-> "KeyError", keys |-> SupplyKeyErrors(d)],
              model |-> NoModel]
        ELSE IF NaNCells(d) # {}
        THEN [error |-> [type |-> "GurobiError", keys |-> NaNCells(d)],
              model |-> NoModel]
        ELSE [error |-> NoError,
              model |-> [runs |-> keys,
                         obj |-> [k \in SeqSet(keys) |-> ObjCoef(d, k[1], k[2])],
                         constrs |-> eligibility \o MinRunsConstrs(d) \o supply \o caps]]

-----------------------------------------------------------------------------
(* The solver.  model.optimize() is external: the definitions below state  *)
(* what a solution of the built program is.                                *)

GRB_LOADED == "LOADED"
GRB_OPTIMAL == "OPTIMAL"
GRB_INFEASIBLE == "INFEASIBLE"
GRB_INF_OR_UNBD == "INF_OR_UNBD"
GRB_TIME_LIMIT == "TIME_LIMIT"
GRB_SOLUTION_LIMIT == "SOLUTION_LIMIT"
GRB_INTERRUPTED == "INTERRUPTED"
GRB_NUMERIC == "NUMERIC"

\* No value for any variable.
NoX == <<>>

RECURSIVE DotUpTo(_, _, _, _)
DotUpTo(coef, x, keys, n) ==
    IF n = 0 THEN 0
    ELSE DotUpTo(coef, x, keys, n - 1) + coef[keys[n]] * x[keys[n]]

\* The value of a linear expression at x.
Dot(coef, x, keys) == DotUpTo(coef, x, keys, Len(keys))

\* Whether x satisfies constraint c; a right-hand side of GRB.INFINITY bounds
\* nothing.
Satisfies(c, x, keys) ==
    IF c.sense = "<"
    THEN c.rhs = GRB_INFINITY \/ Dot(c.coef, x, keys) <= c.rhs
    ELSE Dot(c.coef, x, keys) >= c.rhs

\* The assignments of integers >= 0 (vtype INTEGER, lb 0) to the runs
\* variables that satisfy every constraint.
Feasible(m) ==
    {x \in [SeqSet(m.runs) -> 0..MaxRunValue] :
        \A i \in 1..Len(m.constrs) : Satisfies(m.constrs[i], x, m.runs)}

ObjVal(m, x) == Dot(m.obj, x, m.runs)

\* The feasible assignments of maximal objective (GRB.MAXIMIZE).
Optimal(m, F) == {x \in F : \A y \in F : ObjVal(m, y) <= ObjVal(m, x)}

\* add_solution_pool: PoolSearchMode 2, PoolSolutions 10.
PoolSearchMode == 2
PoolSolutions == 10
PoolParams == [PoolSearchMode |-> PoolSearchMode, PoolSolutions |-> PoolSolutions]
NoParams == [PoolSearchMode |-> 0, PoolSolutions |-> 1]

Min(a, b) == IF a <= b THEN a ELSE b

\* What model.optimize() may leave in Status, SolCount and the X attributes.
SolverOutcomes(m, p) ==
    LET F == Feasible(m)
        found == Min(p.PoolSolutions, Cardinality(F))
    IN  {[Status |-> GRB_OPTIMAL, SolCount |-> found, X |-> x] : x \in Optimal(m, F)}
        \cup {[Status |-> s, SolCount |-> 1, X |-> x] :
                 s \in {GRB_TIME_LIMIT, GRB_INTERRUPTED, GRB_SOLUTION_LIMIT}, x \in F}
        \cup {[Status |-> s, SolCount |-> 0, X |-> NoX] :
                 s \in {GRB_TIME_LIMIT, GRB_INTERRUPTED, GRB_NUMERIC}}
        \cup (IF F = {}
              THEN {[Status |-> s, SolCount |-> 0, X |-> NoX] :
                       s \in {GRB_INFEASIBLE, GRB_INF_OR_UNBD}}
              ELSE {})

-----------------------------------------------------------------------------
(* AllocationModel.summarize_allocations and constraint_slacks.            *)

\* The rows of one (door, sku) with value runs, before door_size_units.
RowsOf(d, door, sku, value) ==
    LET zs == d.sku_sizes[sku]
    IN  [j \in 1..Len(zs) |->
            [door |-> door, sku |-> sku, size |-> zs[j], runs |-> value,
             ratio |-> d.ratio[<<sku, zs[j]>>],
             units |-> d.ratio[<<sku, zs[j]>>] * value,
             score |-> d.score[<<d.door_tier[door], d.heat[sku]>>],
             heat |-> d.heat[sku]]]

\* The loop over doors and skus up to the n-th pair; tolerance 1e-6 on an
\* integer value: value <= tolerance is value <= 0.
RECURSIVE RowsUpTo(_, _, _, _)
RowsUpTo(d, keys, x, n) ==
    IF n = 0 THEN <<>>
    ELSE RowsUpTo(d, keys, x, n - 1)
         \o (IF x[keys[n]] <= 0 THEN <<>>
             ELSE RowsOf(d, keys[n][1], keys[n][2], x[keys[n]]))

\* units_by_door_size after the first n rows.
RECURSIVE UnitsByDoorSize(_, _, _, _)
UnitsByDoorSize(rows, door, size, n) ==
    IF n = 0 THEN 0
    ELSE UnitsByDoorSize(rows, door, size, n - 1)
         + (IF rows[n].door = door /\ rows[n].size = size THEN rows[n].units ELSE 0)

DoorSizeUnitsRunning(rows, i) ==
    UnitsByDoorSize(rows, rows[i].door, rows[i].size, i)

\* row["door_size_units"], set in a second pass once every row is in.
DoorSizeUnits(rows, i) ==
    UnitsByDoorSize(rows, rows[i].door, rows[i].size, Len(rows))

\* Reading a solution attribute of a model that holds no solution raises in the
\* solver library; the first read is self.runs[door, sku].X.
AttributeError(attr) == [type |-> "AttributeError", attr |-> attr]
XUnavailable(m, x) == x = NoX /\ Len(m.runs) > 0

NoSolutionRaisesNothing(solcount) == FALSE

\* if self.model.SolCount == 0: raise ValueError(...)
NoSolution(solcount) == solcount = 0

summarize_allocations(d, m, solcount, x) ==
    IF NoSolution(solcount)
    THEN [raised |-> ValueError("Model has no solution to summarize.", {}),
          rows |-> NoRows]
    ELSE IF XUnavailable(m, x)
    THEN [raised |-> AttributeError("X"), rows |-> NoRows]
    ELSE LET rows == RowsUpTo(d, m.runs, x, Len(m.runs))
         IN  [raised |-> NoError,
              rows |-> [i \in 1..Len(rows) |->
                  [door |-> rows[i].door, sku |-> rows[i].sku,
                   size |-> rows[i].size, runs |-> rows[i].runs,
                   ratio |-> rows[i].ratio, units |-> rows[i].units,
                   score |-> rows[i].score, heat |-> rows[i].heat,
                   door_size_units |-> DoorSizeUnits(rows, i)]]]

\* constr.Slack of a <= constraint: right-hand side minus activity.
Slack(c, x, keys) ==
    IF c.rhs = GRB_INFINITY THEN GRB_INFINITY ELSE c.rhs - Dot(c.coef, x, keys)

\* for constr in self.model.getConstrs(): rows.append({...})
SlackRows(m, x) ==
    [i \in 1..Len(m.constrs) |->
        [name |-> m.constrs[i].name,
         slack |-> Slack(m.constrs[i], x, m.runs),
         rhs |-> m.constrs[i].rhs,
         sense |-> m.constrs[i].sense]]

constraint_slacks(m, solcount, x) ==
    IF NoSolution(solcount)
    THEN [raised |-> ValueError("Model has no solution; optimize first.", {}),
          rows |-> NoRows]
    ELSE IF x = NoX /\ Len(m.constrs) > 0
    THEN [raised |-> AttributeError("Slack"), rows |-> NoRows]
    ELSE [raised |-> NoError, rows |-> SlackRows(m, x)]

-----------------------------------------------------------------------------
(* The inputs: the tables of one invocation.                               *)

Table(f, col) == [k \in DOMAIN f |-> [c \in {col} |-> f[k]]]

SupplyRow(units, ratio) == [supply_units |-> units, ratio |-> ratio]
TierHeatRow(max_runs, score) == [max_runs |-> max_runs, score |-> score]

Hot == HeatStr("H")
Cold == HeatStr("C")

Invocation(present, pool, doors, articles, eligible, supply, heat, tier_cap_runs, caps) ==
    [files_present |-> present,
     use_solution_pool |-> pool,
     doors |-> doors,
     articles |-> articles,
     eligibility |-> Table(eligible, "eligible"),
     supply |-> supply,
     heat |-> heat,
     tier_cap_runs |-> tier_cap_runs,
     tier_capacity |-> Table(caps, "cap_runs_total"),
     min_runs |-> <<>>]

\* The same invocation with a min_runs.csv in the data directory.
WithMinRuns(t, mins) == [t EXCEPT !.min_runs = Table(mins, "min_runs")]

\* Two doors of tiers A and B, one SKU of heat H with sizes S and M, door d1
\* eligible and d2 not, scores 10 and 5, max_runs 3, supply 6 at ratio 2 and 9
\* at ratio 3, tier A capped at 3 runs.
ScenarioDoors == ("d1" :> "A" @@ "d2" :> "B")
ScenarioSupply ==
    (<<"k1", "S">> :> SupplyRow(6, 2) @@ <<"k1", "M">> :> SupplyRow(9, 3))
ScenarioTierHeat ==
    (<<"A", Hot>> :> TierHeatRow(3, 10) @@ <<"B", Hot>> :> TierHeatRow(3, 5))

Scenario(present, pool) ==
    Invocation(present, pool, ScenarioDoors,
               {<<"k1", "S">>, <<"k1", "M">>},
               (<<"d1", "k1">> :> 1 @@ <<"d2", "k1">> :> 0),
               ScenarioSupply, ("k1" :> Hot), ScenarioTierHeat, ("A" :> 3))

ScenarioInputs == {Scenario(present, pool) : present \in BOOLEAN, pool \in BOOLEAN}

\* Two doors, SKU k1 with sizes S and M and SKU k2 with size S.
TwoSkuArticles == {<<"k1", "S">>, <<"k1", "M">>, <<"k2", "S">>}
TwoSkuPairs == {<<"d1", "k1">>, <<"d1", "k2">>, <<"d2", "k1">>, <<"d2", "k2">>}
TwoSkuSupply ==
    (<<"k1", "S">> :> SupplyRow(4, 2) @@ <<"k1", "M">> :> SupplyRow(6, 3)
     @@ <<"k2", "S">> :> SupplyRow(1, 1))
TwoSkuHeat == ("k1" :> Hot @@ "k2" :> Cold)
TwoSkuTierHeat(mr) ==
    (<<"A", Hot>> :> TierHeatRow(mr["A"], 10) @@ <<"B", Hot>> :> TierHeatRow(mr["B"], 5)
     @@ <<"A", Cold>> :> TierHeatRow(mr["A"], 4) @@ <<"B", Cold>> :> TierHeatRow(mr["B"], 7))

\* Eligibility tables: any rows over the four pairs, flags 0 or 1.
EligibilityTables == UNION {[P -> {0, 1}] : P \in SUBSET TwoSkuPairs}

\* Tier capacity tables: none, tier A only, or both tiers.
TierCapTables ==
    {<<>>} \cup {("A" :> c) : c \in 1..MaxTierCap}
           \cup {("A" :> c @@ "B" :> c) : c \in 1..MaxTierCap}

AllEligible == [k \in TwoSkuPairs |-> 1]
NoRowForD2K1 == (<<"d1", "k1">> :> 1 @@ <<"d1", "k2">> :> 0 @@ <<"d2", "k2">> :> 1)

TwoSku(eligible, mr, caps) ==
    Invocation(TRUE, FALSE, ScenarioDoors, TwoSkuArticles, eligible,
               TwoSkuSupply, TwoSkuHeat, TwoSkuTierHeat(mr), caps)

EligibilityInputs ==
    {TwoSku(e, [t \in {"A", "B"} |-> MaxRunsEntry], ("A" :> 1)) : e \in EligibilityTables}

CapInputs ==
    {TwoSku(e, mr, caps) :
        e \in {AllEligible, NoRowForD2K1},
        mr \in [{"A", "B"} -> 0..MaxRunsEntry],
        caps \in TierCapTables}

\* Tables with rows left out, cells left empty, or rows nothing refers to.
Restrict(f, S) == [k \in S |-> f[k]]

TierHeatInputs ==
    {Invocation(TRUE, FALSE, ScenarioDoors, TwoSkuArticles, AllEligible, TwoSkuSupply,
                Restrict(TwoSkuHeat, H),
                Restrict(TwoSkuTierHeat([t \in {"A", "B"} |-> 1]), P), <<>>) :
        H \in {{"k1", "k2"}, {"k1"}},
        P \in SUBSET {<<"A", Hot>>, <<"B", Hot>>, <<"A", Cold>>, <<"B", Cold>>}}

SupplyCells == {SupplyRow(1, 1), SupplyRow(1, NaN)}
CurveKeys == {<<"k1", "S">>, <<"k1", "M">>}
StrayKeys == {<<"k1", "L">>, <<"k9", "S">>}

SupplyTableInputs(supplies) ==
    {Invocation(TRUE, FALSE, ("d1" :> "A"), CurveKeys,
                (<<"d1", "k1">> :> 1), sup, ("k1" :> Hot),
                (<<"A", Hot>> :> TierHeatRow(1, 10)), <<>>) : sup \in supplies}

\* Supply rows missing for sizes of the run curve, or present for a size or
\* a SKU outside it.
MissingSupplyInputs ==
    SupplyTableInputs(UNION {[K -> {SupplyRow(1, 1)}] :
                                K \in SUBSET (CurveKeys \cup StrayKeys)})

\* A row for every size of the run curve, some with an empty cell.
EmptyCellInputs ==
    SupplyTableInputs(UNION {[CurveKeys \cup K -> SupplyCells] :
                                K \in SUBSET {<<"k1", "L">>}})

\* Heat labels that are numbers in both tables, or strings in both.
NumericHeatInputs ==
    {Invocation(TRUE, FALSE, ("d1" :> "A"), {<<"k1", "S">>},
                (<<"d1", "k1">> :> 1), (<<"k1", "S">> :> SupplyRow(1, 1)),
                ("k1" :> h), (<<"A", h>> :> TierHeatRow(1, 10)), <<>>) :
        h \in {HeatNum("1"), HeatStr("1")}}

\* Identifiers that contain the separator of the constraint names.
CommaInputs ==
    {Invocation(TRUE, FALSE, ("a" :> "A" @@ "a,b" :> "A"),
                {<<"b,c", "S">>, <<"c", "S">>},
                [k \in {"a", "a,b"} \X {"b,c", "c"} |-> 1],
                (<<"b,c", "S">> :> SupplyRow(1, 1) @@ <<"c", "S">> :> SupplyRow(1, 1)),
                ("b,c" :> Hot @@ "c" :> Hot),
                (<<"A", Hot>> :> TierHeatRow(1, 10)), <<>>)}

\* The scenario with a minimum-runs table: rows for none, one or both pairs,
\* of 0 runs, of 1 run, or of more runs than the supply or the cap allows.
MinRunsTables ==
    UNION {[P -> {0, 1, MaxRunValue + 1}] : P \in SUBSET {<<"d1", "k1">>, <<"d2", "k1">>}}

MinRunsInputs == {WithMinRuns(Scenario(TRUE, FALSE), mins) : mins \in MinRunsTables \ {<<>>}}

Inputs ==
    MinRunsInputs \cup ScenarioInputs \cup EligibilityInputs \cup CapInputs \cup TierHeatInputs
        \cup MissingSupplyInputs \cup EmptyCellInputs \cup NumericHeatInputs \cup CommaInputs

-----------------------------------------------------------------------------
(* run(data_dir, output_prefix, use_solution_pool)                         *)

Init ==
    /\ tables \in Inputs
    /\ pc = "start"
    /\ data = NoData
    /\ model = NoModel
    /\ params = NoParams
    /\ Status = GRB_LOADED
    /\ SolCount = 0
    /\ X = NoX
    /\ status = GRB_LOADED
    /\ allocation_rows = NoRows
    /\ slack_rows = NoRows
    /\ written = {}
    /\ error = NoError
    /\ last_call = NoCall

Fail(e) == /\ error' = e
           /\ pc' = "failed"

\* _read_table of the seven required tables.
ReadTables ==
    /\ pc = "start"
    /\ IF tables.files_present
       THEN pc' = "tables" /\ error' = error
       ELSE Fail([type |-> "FileNotFoundError"])
    /\ last_call' = NoCall
    /\ UNCHANGED <<tables, data, model, params, Status, SolCount, X, status,
                   allocation_rows, slack_rows, written>>

\* data = allocation_data_from_tables(...)
MakeData ==
    /\ pc = "tables"
    /\ LET r == allocation_data_from_tables(tables)
       IN  IF r.error = NoError
           THEN data' = r.data /\ pc' = "data" /\ error' = error
           ELSE data' = data /\ Fail(r.error)
    /\ last_call' = NoCall
    /\ UNCHANGED <<tables, model, params, Status, SolCount, X, status,
                   allocation_rows, slack_rows, written>>

\* allocation = build_allocation_model(data)
Build ==
    /\ pc = "data"
    /\ LET r == build_allocation_model(data)
       IN  IF r.error = NoError
           THEN model' = r.model /\ pc' = "built" /\ error' = error
           ELSE model' = model /\ Fail(r.error)
    /\ last_call' = NoCall
    /\ UNCHANGED <<tables, data, params, Status, SolCount, X, status,
                   allocation_rows, slack_rows, written>>

\* if use_solution_pool: allocation.add_solution_pool()
AddSolutionPool ==
    /\ pc = "built"
    /\ tables.use_solution_pool
    /\ params' = PoolParams
    /\ pc' = "pooled"
    /\ last_call' = NoCall
    /\ UNCHANGED <<tables, data, model, Status, SolCount, X, status,
                   allocation_rows, slack_rows, written, error>>

\* status = allocation.optimize()
Optimize ==
    /\ \/ pc = "built" /\ ~tables.use_solution_pool
       \/ pc = "pooled"
    /\ \E out \in SolverOutcomes(model, params) :
          /\ Status' = out.Status
          /\ SolCount' = out.SolCount
          /\ X' = out.X
          /\ status' = out.Status
    /\ pc' = "optimized"
    /\ last_call' = NoCall
    /\ UNCHANGED <<tables, data, model, params, allocation_rows, slack_rows,
                   written, error>>

EveryStatusUsable(s) == TRUE

\* status in {GRB.OPTIMAL, GRB.INTERRUPTED, GRB.TIME_LIMIT}
Usable(s) == s \in {GRB_OPTIMAL, GRB_INTERRUPTED, GRB_TIME_LIMIT}

\* RuntimeError(f"Model did not solve successfully (status={status}).")
StatusError(s) ==
    [type |-> "RuntimeError", msg |-> "Model did not solve successfully", status |-> s]

CheckStatus ==
    /\ pc = "optimized"
    /\ IF Usable(status)
       THEN pc' = "usable" /\ error' = error
       ELSE Fail(StatusError(status))
    /\ last_call' = NoCall
    /\ UNCHANGED <<tables, data, model, params, Status, SolCount, X, status,
                   allocation_rows, slack_rows, written>>

\* allocation_rows = allocation.summarize_allocations()
Summarize ==
    /\ pc = "usable"
    /\ LET r == summarize_allocations(data, model, SolCount, X)
       IN  IF r.raised = NoError
           THEN allocation_rows' = r.rows /\ pc' = "summarized" /\ error' = error
           ELSE allocation_rows' = allocation_rows /\ Fail(r.raised)
    /\ last_call' = NoCall
    /\ UNCHANGED <<tables, data, model, params, Status, SolCount, X, status,
                   slack_rows, written>>

\* slack_rows = allocation.constraint_slacks()
Slacks ==
    /\ pc = "summarized"
    /\ LET r == constraint_slacks(model, SolCount, X)
       IN  IF r.raised = NoError
           THEN slack_rows' = r.rows /\ pc' = "extracted" /\ error' = error
           ELSE slack_rows' = slack_rows /\ Fail(r.raised)
    /\ last_call' = NoCall
    /\ UNCHANGED <<tables, data, model, params, Status, SolCount, X, status,
                   allocation_rows, written>>

\* The two to_csv calls.
WriteReports ==
    /\ pc = "extracted"
    /\ written' = {[file |-> "allocations", rows |-> allocation_rows],
                   [file |-> "slacks", rows |-> slack_rows]}
    /\ pc' = "done"
    /\ last_call' = NoCall
    /\ UNCHANGED <<tables, data, model, params, Status, SolCount, X, status,
                   allocation_rows, slack_rows, error>>

\* The extractors are public methods of AllocationModel: a caller holding the
\* built model may call them before optimize() or after run()'s own steps.
Callable == model # NoModel /\ pc \in {"built", "failed", "done"}

CallSummarize ==
    /\ Callable
    /\ last_call' = [call |-> "summarize_allocations",
                     result |-> summarize_allocations(data, model, SolCount, X)]
    /\ UNCHANGED <<tables, pc, data, model, params, Status, SolCount, X, status,
                   allocation_rows, slack_rows, written, error>>

CallSlacks ==
    /\ Callable
    /\ last_call' = [call |-> "constraint_slacks",
                     result |-> constraint_slacks(model, SolCount, X)]
    /\ UNCHANGED <<tables, pc, data, model, params, Status, SolCount, X, status,
                   allocation_rows, slack_rows, written, error>>

Next ==
    \/ ReadTables
    \/ MakeData
    \/ Build
    \/ AddSolutionPool
    \/ Optimize
    \/ CheckStatus
    \/ Summarize
    \/ Slacks
    \/ WriteReports
    \/ CallSummarize
    \/ CallSlacks

Spec == Init /\ [][Next]_vars

-----------------------------------------------------------------------------
(* Properties.  They are stated over the input tables, not over the data   *)
(* model or the built program.                                             *)

RECURSIVE SeqSum(_)
SeqSum(q) == IF q = <<>> THEN 0 ELSE Head(q) + SeqSum(Tail(q))

InputDoors == DOMAIN tables.doors
InputSkus == {a[1] : a \in tables.articles}
HoldsSolution == SolCount > 0

\* The eligibility flag of the input is 0, or the pair has no eligibility row.
Ineligible(door, sku) ==
    \/ <<door, sku>> \notin DOMAIN tables.eligibility
    \/ tables.eligibility[<<door, sku>>].eligible = 0

\* maxRuns(tier(door), heat(sku)) of the input.
InputMaxRuns(door, sku) ==
    tables.tier_cap_runs[<<tables.doors[door], Str(tables.heat[sku])>>].max_runs

\* C1: in every solution the solver returns, every runs[door, sku] is an
\* integer >= 0, there is one for every door and SKU, and it is 0 for every
\* pair whose eligibility flag is 0 or that has no eligibility row, whatever
\* maxRuns says.
C1_IneligibleRunsAreZero ==
    HoldsSolution =>
        /\ DOMAIN X = InputDoors \X InputSkus
        /\ \A k \in DOMAIN X :
              /\ X[k] \in Nat
              /\ Ineligible(k[1], k[2]) => X[k] = 0

\* A solution that ships runs, with one pair flagged 0 and one pair without a
\* row, both under a positive maxRuns.
C1_Witness ==
    /\ HoldsSolution
    /\ \E k \in DOMAIN X : X[k] > 0
    /\ \E k \in DOMAIN X :
          /\ k \in DOMAIN tables.eligibility
          /\ tables.eligibility[k].eligible = 0
          /\ InputMaxRuns(k[1], k[2]) > 0
    /\ \E k \in DOMAIN X :
          /\ k \notin DOMAIN tables.eligibility
          /\ InputMaxRuns(k[1], k[2]) > 0

\* Units of (sku, size) shipped to all doors: ratio * runs, door by door.
ShippedUnits(sku, size) ==
    LET ds == Sorted(InputDoors)
    IN  SeqSum([i \in 1..Len(ds) |-> tables.supply[<<sku, size>>].ratio * X[<<ds[i], sku>>]])

\* C2: in every solution the solver returns, for every (SKU, size) with a
\* supply row the units shipped to all doors, ratio * runs, do not exceed the
\* supply of that size.
C2_SupplyNeverExceeded ==
    HoldsSolution =>
        \A k \in DOMAIN tables.supply :
            ShippedUnits(k[1], k[2]) <= tables.supply[k].supply_units

\* Two doors each receive runs of one SKU and a size with ratio above 1 is
\* shipped out completely.
C2_Witness ==
    /\ HoldsSolution
    /\ \E k \in DOMAIN tables.supply :
          /\ tables.supply[k].ratio > 1
          /\ ShippedUnits(k[1], k[2]) = tables.supply[k].supply_units
          /\ \A door \in InputDoors : X[<<door, k[1]>>] > 0

\* Runs of all SKUs at one door.
DoorRuns(door) ==
    LET ks == Sorted(InputSkus)
    IN  SeqSum([i \in 1..Len(ks) |-> X[<<door, ks[i]>>]])

HasTierCap(door) == tables.doors[door] \in DOMAIN tables.tier_capacity
InputTierCap(door) == tables.tier_capacity[tables.doors[door]].cap_runs_total

\* C3: in every solution the solver returns, the runs of a door over all SKUs
\* do not exceed cap_runs_total of the door's tier; a door whose tier has no
\* tier-capacity row gets a cap constraint whose right-hand side is infinite,
\* which bounds nothing.
C3_TierCapRespected ==
    /\ HoldsSolution =>
          \A door \in InputDoors : HasTierCap(door) => DoorRuns(door) <= InputTierCap(door)
    /\ model # NoModel =>
          \A i \in 1..Len(model.constrs) :
              LET c == model.constrs[i]
              IN  (c.kind = "cap_runs_total" /\ ~HasTierCap(c.key[1]))
                      => c.rhs = GRB_INFINITY

\* One door is filled to its tier's cap while a door of a tier without a cap
\* row receives more runs than that cap.
C3_Witness ==
    /\ HoldsSolution
    /\ \E d1 \in InputDoors, d2 \in InputDoors :
          /\ HasTierCap(d1)
          /\ DoorRuns(d1) = InputTierCap(d1)
          /\ ~HasTierCap(d2)
          /\ DoorRuns(d2) > InputTierCap(d1)

UsableStatuses == {GRB_OPTIMAL, GRB_INTERRUPTED, GRB_TIME_LIMIT}
Optimized == Status # GRB_LOADED
FullReports ==
    {[file |-> "allocations",
      rows |-> summarize_allocations(data, model, SolCount, X).rows],
     [file |-> "slacks", rows |-> constraint_slacks(model, SolCount, X).rows]}

\* C4 as amended: once run() has looked at a status other than optimal,
\* interrupted or time-limit, it has failed with a RuntimeError that carries
\* the raw status, and no report is extracted or written; whenever run()
\* writes, it writes both reports, each the full extraction of the solution
\* held under a usable status.  (The allocation report of a solution whose
\* runs are all 0 has no rows.)
C4_UnusableStatusWritesNothing ==
    /\ (Optimized /\ pc # "optimized" /\ status \notin UsableStatuses) =>
          /\ pc = "failed"
          /\ error = [type |-> "RuntimeError",
                      msg |-> "Model did not solve successfully",
                      status |-> status]
          /\ allocation_rows = NoRows
          /\ slack_rows = NoRows
          /\ written = {}
    /\ written # {} =>
          /\ pc = "done"
          /\ status \in UsableStatuses
          /\ HoldsSolution
          /\ written = FullReports

\* run() has failed on an unusable status although the solver held a solution.
C4_Witness ==
    /\ pc = "failed"
    /\ status = GRB_SOLUTION_LIMIT
    /\ HoldsSolution
    /\ error.type = "RuntimeError"

\* C4 as claimed: as above, and no path through run() writes an empty report.
C4_NoEmptyReport ==
    /\ C4_UnusableStatusWritesNothing
    /\ \A f \in written : Len(f.rows) > 0

NoSolutionToSummarize == ValueError("Model has no solution to summarize.", {})
NoSolutionOptimizeFirst == ValueError("Model has no solution; optimize first.", {})

\* C5: with solution count 0, summarize_allocations and constraint_slacks
\* each raise ValueError and return no rows, whether the model was never
\* optimized, is infeasible, or hit a limit without an incumbent; and run()
\* under a usable status with solution count 0 ends in that ValueError with
\* nothing extracted and no report written.
C5_NoSolutionRaises ==
    /\ (last_call.call = "summarize_allocations" /\ SolCount = 0) =>
          /\ last_call.result.raised = NoSolutionToSummarize
          /\ last_call.result.rows = NoRows
    /\ (last_call.call = "constraint_slacks" /\ SolCount = 0) =>
          /\ last_call.result.raised = NoSolutionOptimizeFirst
          /\ last_call.result.rows = NoRows
    /\ (Optimized /\ pc # "optimized" /\ status \in UsableStatuses /\ SolCount = 0) =>
          /\ pc \in {"usable", "failed"}
          /\ pc = "failed" => error = NoSolutionToSummarize
          /\ allocation_rows = NoRows
          /\ slack_rows = NoRows
          /\ written = {}

\* run() ended on a time limit without an incumbent, and a direct call of
\* constraint_slacks on that model raised as well.
C5_Witness ==
    /\ pc = "failed"
    /\ status = GRB_TIME_LIMIT
    /\ SolCount = 0
    /\ error = NoSolutionToSummarize
    /\ last_call.call = "constraint_slacks"
    /\ last_call.result.raised = NoSolutionOptimizeFirst

\* The (tier, heat) pairs of the input that occur: the tier of a door with the
\* heat, as a string, of a SKU of the articles table.
OccurringPairs ==
    {<<tables.doors[door], Str(tables.heat[sku])>> :
        door \in InputDoors, sku \in InputSkus \cap DOMAIN tables.heat}

\* An occurring pair has no tier_cap_runs row, so neither score nor max_runs.
LacksTierHeatRow == \E p \in OccurringPairs : p \notin DOMAIN tables.tier_cap_runs

DataIntegrityMessages ==
    {"Missing heat entries for SKUs",
     "Missing supply entries for SKU x size pairs",
     "Missing score entries for tier/heat pairs",
     "Missing max_runs entries for tier/heat pairs",
     "Supply and ratio tables must share identical (sku, size) keys."}

\* C6: when an occurring (tier, heat) pair lacks its score or max_runs entry,
\* run() never gets past allocation_data_from_tables: the data model is not
\* produced, no program is built, the solver is not called, and the call has
\* failed with a data-integrity ValueError.
C6_InvalidDataNeverBuilt ==
    LacksTierHeatRow =>
        /\ pc \in {"start", "tables", "failed"}
        /\ data = NoData
        /\ model = NoModel
        /\ ~Optimized
        /\ (pc = "failed" /\ tables.files_present) =>
              /\ error.type = "ValueError"
              /\ error.msg \in DataIntegrityMessages

\* The call failed naming exactly the occurring pairs without a row.
C6_Witness ==
    /\ pc = "failed"
    /\ error.type = "ValueError"
    /\ error.msg = "Missing score entries for tier/heat pairs"
    /\ error.keys = OccurringPairs \ DOMAIN tables.tier_cap_runs
    /\ error.keys # {}

\* The (sku, size) keys of the supply table that have a supply value, and
\* those that have a ratio.
KeysWithSupply == {k \in DOMAIN tables.supply : tables.supply[k].supply_units # NaN}
KeysWithRatio == {k \in DOMAIN tables.supply : tables.supply[k].ratio # NaN}
KeyMismatch == (KeysWithSupply \ KeysWithRatio) \cup (KeysWithRatio \ KeysWithSupply)

\* C7 as claimed: when the keys with a supply entry differ from the keys with
\* a ratio entry, allocation_data_from_tables has failed once it was called,
\* with an error that names the offending (sku, size) pairs.
C7_KeyMismatchIdentified ==
    (KeyMismatch # {} /\ tables.files_present /\ pc \notin {"start", "tables"}) =>
        /\ pc = "failed"
        /\ data = NoData
        /\ error.type = "ValueError"
        /\ KeyMismatch \subseteq error.keys

\* Units of the returned rows of one door and size, re-summed from the units
\* column.
ResummedUnits(rows, door, size) ==
    LET same == SelectSeq(rows, LAMBDA r : r.door = door /\ r.size = size)
    IN  SeqSum([i \in 1..Len(same) |-> same[i].units])

IsScenario == tables \in ScenarioInputs

\* The columns of the allocation rows of the scenario, but for
\* door_size_units.
ScenarioRow(size, ratio, units) ==
    [door |-> "d1", sku |-> "k1", size |-> size, runs |-> 3, ratio |-> ratio,
     units |-> units, score |-> 10, heat |-> Hot]
RowColumns(r) ==
    [door |-> r.door, sku |-> r.sku, size |-> r.size, runs |-> r.runs,
     ratio |-> r.ratio, units |-> r.units, score |-> r.score, heat |-> r.heat]

ExpectedConstraints ==
    {<<"eligibility", k>> : k \in InputDoors \X InputSkus}
        \cup {<<"supply", k>> : k \in DOMAIN tables.supply}
        \cup {<<"cap_runs_total", <<door>>>> : door \in InputDoors}

\* C10 as claimed: the slack rows run() extracted are one row per emitted
\* constraint, in order, the emitted constraints are the expected ones, and
\* no two constraints have the same name.
C10_SlackRowsAttributable ==
    pc \in {"extracted", "done"} =>
        /\ Len(slack_rows) = Len(model.constrs)
        /\ \A i \in 1..Len(slack_rows) : slack_rows[i].name = model.constrs[i].name
        /\ {<<model.constrs[i].kind, model.constrs[i].key>> : i \in 1..Len(model.constrs)}
              = ExpectedConstraints
        /\ Len(model.constrs) = Cardinality(ExpectedConstraints)
        /\ \A i \in 1..Len(model.constrs), j \in 1..Len(model.constrs) :
              i # j => model.constrs[i].name # model.constrs[j].name

\* minRuns(door, sku) of the input's minimum-runs table, 0 without a row.
InputMinRuns(door, sku) ==
    IF <<door, sku>> \in DOMAIN tables.min_runs
    THEN tables.min_runs[<<door, sku>>].min_runs ELSE 0

PositiveMinimums == {k \in InputDoors \X InputSkus : InputMinRuns(k[1], k[2]) > 0}

\* The minimum-runs constraints of the built program, by key and bound.
EmittedMinimums ==
    {<<model.constrs[i].key, model.constrs[i].rhs>> :
        i \in {j \in 1..Len(model.constrs) : model.constrs[j].kind = "min_runs"}}

\* A positive minimum above what the eligibility cap allows the pair.
MinimumConflicts ==
    \E k \in PositiveMinimums :
        InputMinRuns(k[1], k[2]) >
            (IF Ineligible(k[1], k[2]) THEN 0 ELSE InputMaxRuns(k[1], k[2]))

\* C11 as claimed: the built program holds runs[door, sku] >= minRuns for
\* exactly the pairs of the universe with a positive minimum, every
\* solution returned satisfies them, and a minimum above the eligibility cap
\* is not rejected before the solve but leaves the solver without a solution.
C11_MinimumRunsEnforced ==
    /\ model # NoModel =>
          EmittedMinimums = {<<k, InputMinRuns(k[1], k[2])>> : k \in PositiveMinimums}
    /\ HoldsSolution =>
          \A k \in PositiveMinimums : X[k] >= InputMinRuns(k[1], k[2])
    /\ (MinimumConflicts /\ tables.files_present /\ pc \notin {"start", "tables", "data"}) =>
          /\ model # NoModel
          /\ Optimized => ~HoldsSolution

\* The (SKU, size) pairs of the canonical universes: the SKUs of the articles
\* table, each with the sizes of its run curve.
RunCurvePairs == tables.articles

ValidationPassed == data # NoData

\* C12 as claimed: once allocation_data_from_tables has passed, every
\* constraint of the built program is over doors and SKUs of the universes,
\* every supply constraint is over a SKU of the universe and a size of that
\* SKU's run curve, and building does not end in a key-lookup failure.
C12_ConstraintsWithinUniverses ==
    ValidationPassed =>
        /\ model # NoModel =>
              \A i \in 1..Len(model.constrs) :
                  LET c == model.constrs[i]
                  IN  /\ c.kind \in {"eligibility", "min_runs"} =>
                            c.key \in InputDoors \X InputSkus
                      /\ c.kind = "cap_runs_total" => c.key[1] \in InputDoors
                      /\ c.kind = "supply" =>
                            /\ c.key[1] \in InputSkus
                            /\ c.key \in RunCurvePairs
        /\ pc = "failed" => error.type # "KeyError"

====
